---- MODULE Spec2Model ----
(***************************************************************************)
(* Model of monitor_inverter.py: the Windows-key hold detector, the        *)
(* controller (InverterGUI), the per-session ColorInverter with its        *)
(* capture thread, the pixel functions of the capture pipeline, the        *)
(* video-window detector, and the detector's callback loop step by step.   *)
(*                                                                         *)
(* Time is counted in seconds: hold_duration = 2.0 is HoldDuration = 2,    *)
(* join(timeout=1.0) is JoinTimeout = 1.  The 10 ms and 33 ms sleeps are   *)
(* below one unit, so a loop may iterate any number of times per tick.     *)
(*                                                                         *)
(* No lock guards any attribute, and CPython may switch threads between    *)
(* any two lines.  A step of a thread therefore holds one source line that *)
(* reads or writes something another thread writes or reads, together with *)
(* the lines around it that touch only the thread's locals; a position of  *)
(* a thread is named after the line it is about to execute ("l64").  Tk    *)
(* calls made off the main thread are carried out by the main loop: they   *)
(* wait while the main thread is inside a handler, so the Tk calls of a    *)
(* handler are never interleaved with those of another thread.             *)
(*                                                                         *)
(* Spec puts all threads together.  The properties are checked on its      *)
(* parts, named where they are defined.                                    *)
(***************************************************************************)
EXTENDS Integers, Sequences, FiniteSets

\* ------------------------------------------------------------------ bounds
MaxTime == 6          \* the clock runs from Epoch to MaxTime
MaxInv  == 2          \* ColorInverter objects (and detector threads) ever created
MaxMon  == 1          \* monitors an enumeration may return
MonSize == 2          \* width and height, in pixels, of the monitors of the pixel runs

\* ------------------------------------------------------- program constants
HoldDuration == 2     \* WindowsKeyDetector(hold_duration=2.0)
JoinTimeout  == 1     \* detection_thread.join(timeout=1.0)
UpdateInterval == 1   \* VideoWindowDetector.update_interval = 1.0

\* time.time() counts the seconds since 1970: whenever the program runs, the
\* clock is further from 0 (the value press_start_time and last_update are
\* constructed and reset with) than hold_duration and update_interval
Epoch == HoldDuration

VARIABLES
  \* environment
  now,                \* time.time()
  keyDown,            \* physical state of the Windows key (GetAsyncKeyState)
  \* WindowsKeyDetector
  key_pressed, press_start_time, det_running, detection_thread, callbacks,
  det_threads,        \* every detection thread ever started, by the line it is
                      \* at: "none" | "run" (the while test, line 57) | "l59"
                      \* | "l60" | "l62" | "l64" | "l65" | "l67" | "l69" | "l70"
                      \* | "l72" | "l74" | "iter" (the for statement, line 77)
                      \* | "l84" | "done"
  det_local,          \* per detection thread, its locals: current_pressed,
                      \* current_time, the list iterator's index, and inside
                      \* toggle_inversion the object and the argument of the
                      \* call at line 412 and selected_index; flips counts the
                      \* writes of inversion_enabled the fire under way has
                      \* made and session is self.inverter as it was when the
                      \* fire began (observations only)
  toggle_pc,          \* per detection thread, the line of the toggle_inversion
                      \* it is calling: "out" | "l410" | "l411" | "l412"
                      \* | "l303" | "l414" | "l415" | "l416" | "l417" | "l419"
  seen_at,            \* observation: time at which the loop last recorded a press
  fired_since,        \* observation: callbacks fired since that press was recorded
  run_down_since,     \* observation: since when the polls made after the last
                      \* start() have seen the key down without a break (0: not)
  \* InverterGUI
  gui_pc,             \* control thread: "idle" (in the main loop) | "dialog"
                      \* | "l437" | "l438" | "l96" | "l440" | "l441" | "l442"
                      \* (start_detection) | "joining"
                      \* | "l454" | "l456" (stop_detection) | "refreshing"
                      \* | "closing" (the join of on_closing) | "closed"
  join_start,         \* time at which the control thread entered join()
  error_box,          \* text of the messagebox currently shown ("" if none)
  nmon,               \* len(monitor_manager.monitors)
  selected,           \* monitor_combo.current()
  inverter,           \* self.inverter: 0 is None, else the id of a ColorInverter
  inversion_enabled, start_button, stop_button, status_label,
  \* ColorInverter objects, by id.  capture_thread is the thread's place:
  \* "none" | "loop" (while test, line 266) | "l268" | "grab" (270)
  \* | "scan" (inside get_video_windows, 278) | "mask" (279-280)
  \* | "photo" (283-284)
  \* | "draw_test" (286) | "clear_test" (292) | "draw" (287) | "clear" (293)
  \* | "create" (288) | "stopped" | "capture_failed" | "draw_failed"
  inv,
  touched_destroyed,  \* observation: a capture thread used a canvas after destroy()
  \* one frame's way through the capture pipeline
  pix_pc,             \* "off" | "grabbed" | "inverted" (lines 275 to 278)
                      \* | "scanned" | "masked" | "failed"
  monitor_rect,       \* ColorInverter.monitor_rect: <<x, y, right, bottom>>
  video_windows,      \* the set returned by get_video_windows()
  screenshot,         \* sct.grab(monitor): BGRA pixels, by <<row, column>>
  img,                \* the RGB array worked on in place (<<>> before the grab is converted)
  \* VideoWindowDetector (video_windows above is its set object)
  desktop,            \* the top-level windows, in EnumWindows order
  last_update,
  \* the calls of get_video_windows, by caller (the capture thread of the
  \* ColorInverter with that id)
  scan_pc,            \* "idle" | "enum"
  scan_idx,           \* position of EnumWindows in desktop
  scan_time,          \* the local current_time of the call in progress
  scan_result,        \* the caller's last call: "none" | "cached" | "pending"
                      \* | "scanned" | "raised"
  \* the callback loop of detection_loop, one callback at a time
  fire_pc,            \* "poll" | "iter" (inside for callback in self.callbacks)
  fire_idx,           \* the list iterator's index: callbacks already fetched
  fire_time,          \* the local current_time of the iteration
  invoked,            \* observation: <<callback, raised>> for each call of the fire under way
  at_fire,            \* observation: self.callbacks when that fire began
  touched,            \* observation: callbacks added or removed during it
  raised_earlier      \* observation: a callback raised in an earlier fire

envVars == <<now, keyDown>>
detVars == <<key_pressed, press_start_time, det_running, detection_thread,
             callbacks, det_threads, seen_at, fired_since, run_down_since>>
guiVars == <<gui_pc, join_start, error_box, nmon, selected, inverter,
             inversion_enabled, start_button, stop_button, status_label>>
invVars == <<inv, touched_destroyed>>
pixVars == <<pix_pc, monitor_rect, video_windows, screenshot, img>>
callVars == <<det_local, toggle_pc>>
vidVars == <<desktop, last_update, scan_pc, scan_idx, scan_time, scan_result>>
cbVars == <<fire_pc, fire_idx, fire_time, invoked, at_fire, touched, raised_earlier>>
vars == <<envVars, detVars, guiVars, invVars, pixVars, vidVars, cbVars, callVars>>

InvIds == 1..MaxInv

\* ColorInverter.__init__ : the fields of a freshly constructed object (its
\* monitor_rect is modelled with the pixel pipeline below)
NewInverter ==
  [created |-> TRUE, running |-> FALSE,
   overlay_window |-> "none", canvas |-> "none",
   inversion_active |-> FALSE, capture_thread |-> "none"]

\* an id no ColorInverter has been constructed for yet
NoInverter ==
  [created |-> FALSE, running |-> FALSE,
   overlay_window |-> "none", canvas |-> "none",
   inversion_active |-> FALSE, capture_thread |-> "none"]

\* the locals of a detection thread between two iterations of its loop
NoFire ==
  [pressed |-> FALSE, time |-> 0, idx |-> 0, flips |-> 0, session |-> 0,
   obj |-> 0, active |-> FALSE, sel |-> 0]

NumInverters == Cardinality({i \in InvIds : inv[i].created})
NumDetThreads == Cardinality({t \in InvIds : det_threads[t] # "none"})

CtlInit ==
  /\ now = Epoch /\ keyDown = FALSE
  /\ key_pressed = FALSE /\ press_start_time = 0 /\ det_running = FALSE
  /\ detection_thread = 0 /\ callbacks = <<>>
  /\ det_threads = [t \in InvIds |-> "none"]
  /\ det_local = [t \in InvIds |-> NoFire]
  /\ toggle_pc = [t \in InvIds |-> "out"]
  /\ seen_at = 0 /\ fired_since = FALSE /\ run_down_since = 0
  /\ gui_pc = "idle" /\ join_start = 0 /\ error_box = ""
  /\ nmon \in 1..MaxMon /\ selected = 0
  /\ inverter = 0 /\ inversion_enabled = FALSE
  /\ start_button = "normal" /\ stop_button = "disabled"
  /\ status_label = "Ready"
  /\ inv = [i \in InvIds |-> NoInverter]
  /\ touched_destroyed = FALSE

PixOff ==
  /\ pix_pc = "off" /\ monitor_rect = <<0, 0, 0, 0>> /\ video_windows = {}
  /\ screenshot = <<>> /\ img = <<>>

\* no call of get_video_windows made yet
ScanOff ==
  /\ scan_pc = [c \in InvIds |-> "idle"]
  /\ scan_idx = [c \in InvIds |-> 0]
  /\ scan_time = [c \in InvIds |-> 0]
  /\ scan_result = [c \in InvIds |-> "none"]

\* VideoWindowDetector.__init__, on an empty desktop
VidOff ==
  /\ desktop = <<>> /\ last_update = 0
  /\ ScanOff

\* no fire under way
CbOff ==
  /\ fire_pc = "poll" /\ fire_idx = 0 /\ fire_time = 0
  /\ invoked = <<>> /\ at_fire = <<>> /\ touched = {}
  /\ raised_earlier = FALSE

Init == CtlInit /\ PixOff /\ VidOff /\ CbOff

\* ------------------------------------------------------------ environment
Tick ==
  /\ now < MaxTime
  /\ now' = now + 1
  /\ UNCHANGED <<keyDown, detVars, guiVars, invVars, pixVars, vidVars, cbVars, callVars>>

\* the user presses or releases the Windows key
KeyChange ==
  /\ keyDown' = ~keyDown
  /\ UNCHANGED <<now, detVars, guiVars, invVars, pixVars, vidVars, cbVars, callVars>>

\* ----------------------------------------------------- InverterGUI helpers
NoMonitorMsg == "Please select a monitor"
StartFailedMsg == "Failed to start detection"

\* self.monitor_manager.monitors[selected_index], as a 1-based position;
\* 0 stands for the IndexError of an empty list (a negative index counts
\* from the end of a Python list)
MonitorAt(idx) ==
  IF idx >= 0 /\ idx < nmon THEN idx + 1
  ELSE IF idx < 0 /\ nmon + idx >= 0 THEN nmon + idx + 1
  ELSE 0

\* ---------------------------------------------------- WindowsKeyDetector
\* if hold_time >= self.hold_duration
HoldReached(hold_time) == hold_time >= HoldDuration

\* detection thread t goes on to the given line
Goto(t, line) == det_threads' = [det_threads EXCEPT ![t] = line]

\* thread t comes to the sleep of line 86 and back to the while test; the
\* locals of the iteration are dead
NextIteration(t) ==
  /\ Goto(t, "run")
  /\ det_local' = [det_local EXCEPT ![t] = NoFire]

\* what no line of detection_loop outside the callbacks touches
detFrame ==
  <<envVars, det_running, detection_thread, callbacks, toggle_pc,
    guiVars, invVars, pixVars, vidVars, cbVars>>

\* line 57: while self.running
WhileRunning(t) ==
  /\ det_threads[t] = "run"
  /\ Goto(t, IF det_running THEN "l59" ELSE "done")
  /\ UNCHANGED <<key_pressed, press_start_time, seen_at, fired_since,
                 run_down_since, det_local, detFrame>>

\* line 59: current_pressed = self.is_windows_key_pressed()
PollKey(t) ==
  /\ det_threads[t] = "l59"
  /\ det_local' = [det_local EXCEPT ![t].pressed = keyDown]
  /\ run_down_since' = IF ~keyDown THEN 0
                       ELSE IF run_down_since = 0 THEN now
                       ELSE run_down_since
  /\ Goto(t, "l60")
  /\ UNCHANGED <<key_pressed, press_start_time, seen_at, fired_since, detFrame>>

\* line 60: current_time = time.time().  With the key down the next line
\* that reads an attribute is 62; with the key up the test of line 62 ends
\* at current_pressed and the next is 67
ReadClock(t) ==
  /\ det_threads[t] = "l60"
  /\ det_local' = [det_local EXCEPT ![t].time = now]
  /\ Goto(t, IF det_local[t].pressed THEN "l62" ELSE "l67")
  /\ UNCHANGED <<key_pressed, press_start_time, seen_at, fired_since,
                 run_down_since, detFrame>>

\* line 62, current_pressed being true: if ... and not self.key_pressed.
\* When it fails, line 67 fails at not current_pressed and line 72 is next
TestPress(t) ==
  /\ det_threads[t] = "l62"
  /\ Goto(t, IF ~key_pressed THEN "l64" ELSE "l72")
  /\ UNCHANGED <<key_pressed, press_start_time, seen_at, fired_since,
                 run_down_since, det_local, detFrame>>

\* line 64: self.key_pressed = True
SetPressed(t) ==
  /\ det_threads[t] = "l64"
  /\ key_pressed' = TRUE
  /\ seen_at' = det_local[t].time
  /\ fired_since' = FALSE
  /\ Goto(t, "l65")
  /\ UNCHANGED <<press_start_time, run_down_since, det_local, detFrame>>

\* line 65: self.press_start_time = current_time
SetPressStart(t) ==
  /\ det_threads[t] = "l65"
  /\ press_start_time' = det_local[t].time
  /\ NextIteration(t)
  /\ UNCHANGED <<key_pressed, seen_at, fired_since, run_down_since, detFrame>>

\* line 67, current_pressed being false: elif ... and self.key_pressed.
\* When it fails, line 72 fails at current_pressed
TestRelease(t) ==
  /\ det_threads[t] = "l67"
  /\ IF key_pressed
     THEN Goto(t, "l69") /\ UNCHANGED det_local
     ELSE NextIteration(t)
  /\ UNCHANGED <<key_pressed, press_start_time, seen_at, fired_since,
                 run_down_since, detFrame>>

\* line 69: self.key_pressed = False
ClearPressed(t) ==
  /\ det_threads[t] = "l69"
  /\ key_pressed' = FALSE
  /\ Goto(t, "l70")
  /\ UNCHANGED <<press_start_time, seen_at, fired_since, run_down_since,
                 det_local, detFrame>>

\* line 70: self.press_start_time = 0
ClearPressStart(t) ==
  /\ det_threads[t] = "l70"
  /\ press_start_time' = 0
  /\ NextIteration(t)
  /\ UNCHANGED <<key_pressed, seen_at, fired_since, run_down_since, detFrame>>

\* line 72, current_pressed being true: elif ... and self.key_pressed
TestHeld(t) ==
  /\ det_threads[t] = "l72"
  /\ IF key_pressed
     THEN Goto(t, "l74") /\ UNCHANGED det_local
     ELSE NextIteration(t)
  /\ UNCHANGED <<key_pressed, press_start_time, seen_at, fired_since,
                 run_down_since, detFrame>>

\* thread t goes from the hold test to the for statement over
\* self.callbacks
EnterCallbacks(t, current_time) ==
  /\ Goto(t, "iter")
  /\ det_local' = [det_local EXCEPT
                     ![t] = [NoFire EXCEPT !.pressed = TRUE,
                                           !.time = current_time,
                                           !.session = inverter]]
  /\ fired_since' = TRUE

\* lines 74-75: hold_time = current_time - self.press_start_time and the
\* test against hold_duration
TestHold(t) ==
  /\ det_threads[t] = "l74"
  /\ IF HoldReached(det_local[t].time - press_start_time)
     THEN EnterCallbacks(t, det_local[t].time)
     ELSE NextIteration(t) /\ UNCHANGED fired_since
  /\ UNCHANGED <<key_pressed, press_start_time, seen_at, run_down_since,
                 detFrame>>

\* detection_loop outside the callback loop, a line at a time
DetectionLoop(t) ==
  \/ WhileRunning(t)
  \/ PollKey(t)
  \/ ReadClock(t)
  \/ TestPress(t)
  \/ SetPressed(t)
  \/ SetPressStart(t)
  \/ TestRelease(t)
  \/ ClearPressed(t)
  \/ ClearPressStart(t)
  \/ TestHeld(t)
  \/ TestHold(t)

\* a Tk call made off the main thread is carried out by the main loop: it
\* waits while the main thread is inside a handler.  A modal error box runs
\* an event loop of its own
MainLoopServes == gui_pc \in {"idle", "dialog"}

\* root.destroy() has run: every Tk call raises from now on
TkGone == gui_pc = "closed"

\* line 57 when self.running is false: the loop ends
LoopExit(t) ==
  /\ ~det_running
  /\ WhileRunning(t)

\* line 77: for callback in self.callbacks.  The list iterator takes the
\* item at its index from the list as it is now (every registered callback
\* is toggle_inversion), or finds the list exhausted
FetchCallback(t) ==
  /\ det_threads[t] = "iter" /\ toggle_pc[t] = "out"
  /\ IF det_local[t].idx < Len(callbacks)
     THEN /\ toggle_pc' = [toggle_pc EXCEPT ![t] = "l410"]
          /\ UNCHANGED det_threads
     ELSE /\ Goto(t, "l84")
          /\ UNCHANGED toggle_pc
  /\ UNCHANGED <<envVars, key_pressed, press_start_time, det_running,
                 detection_thread, callbacks, seen_at, fired_since,
                 run_down_since, det_local, guiVars, invVars, pixVars,
                 vidVars, cbVars>>

\* toggle_inversion returns to thread c, or raises into the try/except of
\* the for loop (lines 78-81), which prints and goes on: the iterator
\* moves to the next index
Returned(c) ==
  /\ toggle_pc' = [toggle_pc EXCEPT ![c] = "out"]
  /\ det_local' = [det_local EXCEPT
                     ![c] = [det_local[c] EXCEPT !.idx = @ + 1, !.obj = 0,
                                                !.active = FALSE, !.sel = 0]]

\* thread c goes on to the given line of toggle_inversion
ToggleGoto(c, line) == toggle_pc' = [toggle_pc EXCEPT ![c] = line]

\* line 410: if self.inverter
ToggleEnter(c) ==
  /\ toggle_pc[c] = "l410"
  /\ IF inverter = 0
     THEN Returned(c)
     ELSE ToggleGoto(c, "l411") /\ UNCHANGED det_local
  /\ UNCHANGED <<envVars, detVars, guiVars, invVars, pixVars, vidVars, cbVars>>

\* line 411: self.inversion_enabled = not self.inversion_enabled
ToggleFlip(c) ==
  /\ toggle_pc[c] = "l411"
  /\ inversion_enabled' = ~inversion_enabled
  /\ ToggleGoto(c, "l412")
  /\ det_local' = [det_local EXCEPT ![c].flips = @ + 1]
  /\ UNCHANGED <<envVars, detVars, gui_pc, join_start, error_box, nmon,
                 selected, inverter, start_button, stop_button, status_label,
                 invVars, pixVars, vidVars, cbVars>>

\* line 412: self.inverter.set_inversion_active(self.inversion_enabled) up
\* to the call: the object and the argument are read; AttributeError when
\* self.inverter has become None
ToggleSetActive(c) ==
  /\ toggle_pc[c] = "l412"
  /\ IF inverter = 0
     THEN Returned(c)
     ELSE /\ ToggleGoto(c, "l303")
          /\ det_local' = [det_local EXCEPT ![c].obj = inverter,
                                            ![c].active = inversion_enabled]
  /\ UNCHANGED <<envVars, detVars, guiVars, invVars, pixVars, vidVars, cbVars>>

\* ColorInverter.set_inversion_active, line 303, as the next value of inv
set_inversion_active(i, active) ==
  [inv EXCEPT ![i].inversion_active = active]

\* line 303, in the call made at line 412: self.inversion_active = active
ToggleWriteActive(c) ==
  /\ toggle_pc[c] = "l303"
  /\ inv' = set_inversion_active(det_local[c].obj, det_local[c].active)
  /\ ToggleGoto(c, "l414")
  /\ UNCHANGED <<envVars, detVars, guiVars, touched_destroyed, det_local,
                 pixVars, vidVars, cbVars>>

\* line 414: if self.inversion_enabled
ToggleBranch(c) ==
  /\ toggle_pc[c] = "l414"
  /\ ToggleGoto(c, IF inversion_enabled THEN "l415" ELSE "l419")
  /\ UNCHANGED <<envVars, detVars, guiVars, invVars, det_local,
                 pixVars, vidVars, cbVars>>

\* line 415: selected_index = self.monitor_combo.current(), a Tk call (it
\* raises TclError once the root window is destroyed)
ToggleCombo(c) ==
  /\ toggle_pc[c] = "l415"
  /\ MainLoopServes \/ TkGone
  /\ IF TkGone
     THEN Returned(c)
     ELSE /\ ToggleGoto(c, "l416")
          /\ det_local' = [det_local EXCEPT ![c].sel = selected]
  /\ UNCHANGED <<envVars, detVars, guiVars, invVars, pixVars, vidVars, cbVars>>

\* line 416: self.monitor_manager.monitors[selected_index], IndexError
\* when the list has no such item
ToggleMonitor(c) ==
  /\ toggle_pc[c] = "l416"
  /\ IF MonitorAt(det_local[c].sel) = 0
     THEN Returned(c)
     ELSE ToggleGoto(c, "l417") /\ UNCHANGED det_local
  /\ UNCHANGED <<envVars, detVars, guiVars, invVars, pixVars, vidVars, cbVars>>

\* line 417 or 419: self.status_label.config(...), a Tk call
ToggleLabel(c) ==
  /\ toggle_pc[c] \in {"l417", "l419"}
  /\ MainLoopServes \/ TkGone
  /\ status_label' = IF TkGone THEN status_label
                     ELSE IF toggle_pc[c] = "l417" THEN "Inverting"
                     ELSE "Detection active"
  /\ Returned(c)
  /\ UNCHANGED <<envVars, detVars, gui_pc, join_start, error_box, nmon,
                 selected, inverter, inversion_enabled, start_button,
                 stop_button, invVars, pixVars, vidVars, cbVars>>

\* line 84, the for loop being through: self.press_start_time = current_time
AfterCallbacks(t) ==
  /\ det_threads[t] = "l84"
  /\ press_start_time' = det_local[t].time
  /\ NextIteration(t)
  /\ UNCHANGED <<key_pressed, seen_at, fired_since, run_down_since, detFrame>>

\* the callback loop of thread t and the toggle_inversion it calls, a line
\* at a time
CallbackLoop(t) ==
  \/ FetchCallback(t)
  \/ ToggleEnter(t)
  \/ ToggleFlip(t)
  \/ ToggleSetActive(t)
  \/ ToggleWriteActive(t)
  \/ ToggleBranch(t)
  \/ ToggleCombo(t)
  \/ ToggleMonitor(t)
  \/ ToggleLabel(t)
  \/ AfterCallbacks(t)

\* one step of detection thread t
DetectorStep(t) == DetectionLoop(t) \/ CallbackLoop(t)

\* WindowsKeyDetector.start, lines 94-97, as the next values of the
\* detector's fields, for the runs of the detector alone: no detection
\* thread is alive to run between its lines
DetectorStart ==
  IF ~det_running
  THEN /\ det_running' = TRUE
       /\ detection_thread' = NumDetThreads + 1
       /\ det_threads' = [det_threads EXCEPT ![NumDetThreads + 1] = "run"]
       /\ run_down_since' = 0
  ELSE UNCHANGED <<det_running, detection_thread, det_threads, run_down_since>>

\* ------------------------------------------------------------ InverterGUI
NoMonitorBranch_registers ==
  /\ gui_pc' = "dialog"
  /\ error_box' = NoMonitorMsg
  /\ callbacks' = Append(callbacks, "toggle_inversion")
  /\ UNCHANGED <<join_start, nmon, selected, inverter, inversion_enabled,
                 start_button, stop_button, status_label, invVars,
                 key_pressed, press_start_time, det_running, detection_thread,
                 det_threads, seen_at, fired_since, run_down_since>>

\* start_detection: selected_index < 0 -> showerror, return
NoMonitorBranch ==
  /\ gui_pc' = "dialog"
  /\ error_box' = NoMonitorMsg
  /\ UNCHANGED <<join_start, nmon, selected, inverter, inversion_enabled,
                 start_button, stop_button, status_label, detVars, invVars>>

\* where create_overlay_window may raise: in tk.Toplevel() itself (line
\* 204, no window exists), between there and tk.Canvas() (205-218, the
\* window exists, canvas is None), in canvas.pack() (224, both are set)
OverlayFailures == {"toplevel", "canvas", "pack"}

\* a newly constructed ColorInverter after its start(), lines 305-312:
\* running is set, then create_overlay_window runs, then the capture thread
\* is started; when create_overlay_window raises, no thread is started
StartedInverter(fail) ==
  IF fail = "none"
  THEN [NewInverter EXCEPT
          !.running = TRUE, !.overlay_window = "alive",
          !.canvas = "blank", !.capture_thread = "loop"]
  ELSE [NewInverter EXCEPT
          !.running = TRUE,
          !.overlay_window = IF fail = "toplevel" THEN "none" ELSE "alive",
          !.canvas = IF fail = "pack" THEN "blank" ELSE "none"]

\* ColorInverter.start() raised inside create_overlay_window: the object was
\* already stored in self.inverter and its running flag already set; the
\* except clause of start_detection shows the error box
StartFailedBranch(fail) ==
  LET id == NumInverters + 1 IN
  /\ inverter' = id
  /\ inv' = [inv EXCEPT ![id] = StartedInverter(fail)]
  /\ gui_pc' = "dialog"
  /\ error_box' = StartFailedMsg
  /\ UNCHANGED <<join_start, nmon, selected, inversion_enabled, start_button,
                 stop_button, status_label, detVars, touched_destroyed>>

\* lines 429-434 when nothing raises: the new object is stored in
\* self.inverter and started
StartOkBranch ==
  LET id == NumInverters + 1 IN
  /\ inverter' = id
  /\ inv' = [inv EXCEPT ![id] = StartedInverter("none")]
  /\ gui_pc' = "l437"
  /\ UNCHANGED <<join_start, error_box, nmon, selected, inversion_enabled,
                 start_button, stop_button, status_label, detVars,
                 touched_destroyed>>

\* InverterGUI.start_detection, lines 424-434; fail says where, if
\* anywhere, overlay creation raises.  Lines 433 and 434 are one step: all
\* another thread can do between them is toggle_inversion's writes of
\* inversion_enabled and of the new object's inversion_active, which
\* ColorInverter.start neither reads nor writes
StartDetection(fail) ==
  /\ gui_pc = "idle"
  /\ IF selected < 0
     THEN NoMonitorBranch
     ELSE /\ NumInverters < MaxInv
          /\ IF fail = "none" THEN StartOkBranch ELSE StartFailedBranch(fail)
  /\ UNCHANGED <<envVars, pixVars, vidVars, cbVars, callVars>>

\* start_detection, line 437:
\* self.windows_key_detector.add_callback(self.toggle_inversion)
RegisterToggle ==
  /\ gui_pc = "l437"
  /\ callbacks' = Append(callbacks, "toggle_inversion")
  /\ gui_pc' = "l438"
  /\ UNCHANGED <<join_start, error_box, nmon, selected, inverter,
                 inversion_enabled, start_button, stop_button, status_label,
                 key_pressed, press_start_time, det_running, detection_thread,
                 det_threads, seen_at, fired_since, run_down_since,
                 envVars, invVars, pixVars, vidVars, cbVars, callVars>>

\* start_detection, line 438: self.windows_key_detector.start(), its
\* lines 94-95: if not self.running: self.running = True
StartDetector ==
  /\ gui_pc = "l438"
  /\ det_running' = TRUE
  /\ gui_pc' = IF det_running THEN "l440" ELSE "l96"
  /\ UNCHANGED <<join_start, error_box, nmon, selected, inverter,
                 inversion_enabled, start_button, stop_button, status_label,
                 key_pressed, press_start_time, detection_thread, callbacks,
                 det_threads, seen_at, fired_since, run_down_since,
                 envVars, invVars, pixVars, vidVars, cbVars, callVars>>

\* WindowsKeyDetector.start, lines 96-97: the thread is created and
\* started; it runs from here on, whatever the control thread does next
StartThread ==
  /\ gui_pc = "l96"
  /\ detection_thread' = NumDetThreads + 1
  /\ det_threads' = [det_threads EXCEPT ![NumDetThreads + 1] = "run"]
  /\ run_down_since' = 0
  /\ gui_pc' = "l440"
  /\ UNCHANGED <<join_start, error_box, nmon, selected, inverter,
                 inversion_enabled, start_button, stop_button, status_label,
                 key_pressed, press_start_time, det_running, callbacks,
                 seen_at, fired_since,
                 envVars, invVars, pixVars, vidVars, cbVars, callVars>>

\* start_detection, line 440: self.start_button.config(state=tk.DISABLED)
DisableStart ==
  /\ gui_pc = "l440"
  /\ start_button' = "disabled"
  /\ gui_pc' = "l441"
  /\ UNCHANGED <<join_start, error_box, nmon, selected, inverter,
                 inversion_enabled, stop_button, status_label,
                 envVars, detVars, invVars, pixVars, vidVars, cbVars, callVars>>

\* start_detection, line 441: self.stop_button.config(state=tk.NORMAL)
EnableStop ==
  /\ gui_pc = "l441"
  /\ stop_button' = "normal"
  /\ gui_pc' = "l442"
  /\ UNCHANGED <<join_start, error_box, nmon, selected, inverter,
                 inversion_enabled, start_button, status_label,
                 envVars, detVars, invVars, pixVars, vidVars, cbVars, callVars>>

\* start_detection, line 442: self.status_label.config(text=...); the
\* handler returns to the main loop
StartLabel ==
  /\ gui_pc = "l442"
  /\ status_label' = "Detection active"
  /\ gui_pc' = "idle"
  /\ UNCHANGED <<join_start, error_box, nmon, selected, inverter,
                 inversion_enabled, start_button, stop_button,
                 envVars, detVars, invVars, pixVars, vidVars, cbVars, callVars>>

\* messagebox.showerror returns when the user closes the box
DismissDialog ==
  /\ gui_pc = "dialog"
  /\ gui_pc' = "idle"
  /\ error_box' = ""
  /\ UNCHANGED <<join_start, nmon, selected, inverter, inversion_enabled,
                 start_button, stop_button, status_label,
                 envVars, detVars, invVars, pixVars, vidVars, cbVars, callVars>>

\* ColorInverter.stop on object i, lines 316-318, as the next value of inv
InverterStop(i) ==
  [inv EXCEPT ![i].running = FALSE,
              ![i].overlay_window =
                 IF inv[i].overlay_window = "none" THEN "none" ELSE "destroyed"]

\* stop_detection, lines 452-453, windows_key_detector.stop() having
\* returned: if self.inverter: self.inverter.stop().  Between the two
\* writes of ColorInverter.stop a capture thread can only find running
\* false: its Tk calls wait for the handler to end
StopInverter ==
  /\ inv' = IF inverter # 0 THEN InverterStop(inverter) ELSE inv
  /\ gui_pc' = IF inverter # 0 THEN "l454" ELSE "l456"
  /\ join_start' = 0

\* InverterGUI.stop_detection up to the join inside WindowsKeyDetector.stop
\* (lines 449-450, 101-103); with no thread to join it goes on to line 453
StopDetection ==
  /\ gui_pc = "idle"
  /\ det_running' = FALSE
  /\ IF detection_thread # 0
     THEN /\ gui_pc' = "joining"
          /\ join_start' = now
          /\ UNCHANGED inv
     ELSE StopInverter
  /\ UNCHANGED <<error_box, nmon, selected, inverter, inversion_enabled,
                 start_button, stop_button, status_label, envVars, key_pressed,
                 press_start_time, detection_thread, callbacks, det_threads,
                 seen_at, fired_since, run_down_since,
                 touched_destroyed, pixVars, vidVars, cbVars, callVars>>

\* join(timeout=1.0) returns: the thread has ended, or the timeout has
\* passed; stop_detection goes on to line 453
StopJoined ==
  /\ gui_pc = "joining"
  /\ \/ det_threads[detection_thread] = "done"
     \/ now - join_start >= JoinTimeout
  /\ StopInverter
  /\ UNCHANGED <<error_box, nmon, selected, inverter, inversion_enabled,
                 start_button, stop_button, status_label, envVars, detVars,
                 touched_destroyed, pixVars, vidVars, cbVars, callVars>>

\* stop_detection, line 454: self.inverter = None
StopForget ==
  /\ gui_pc = "l454"
  /\ inverter' = 0
  /\ gui_pc' = "l456"
  /\ UNCHANGED <<join_start, error_box, nmon, selected, inversion_enabled,
                 start_button, stop_button, status_label,
                 envVars, detVars, invVars, pixVars, vidVars, cbVars, callVars>>

\* stop_detection, lines 456-459: self.inversion_enabled = False, then the
\* buttons and the label
StopReset ==
  /\ gui_pc = "l456"
  /\ inversion_enabled' = FALSE
  /\ start_button' = "normal"
  /\ stop_button' = "disabled"
  /\ status_label' = "Ready"
  /\ gui_pc' = "idle"
  /\ UNCHANGED <<join_start, error_box, nmon, selected, inverter,
                 envVars, detVars, invVars, pixVars, vidVars, cbVars, callVars>>

\* on_closing after windows_key_detector.stop() has returned:
\* self.inverter.stop(), then root.destroy(), which destroys every window
\* of the application with it.  self.inverter, the flag, the buttons and
\* the label keep their values
CloseTail ==
  /\ inv' = [i \in InvIds |->
               [inv[i] EXCEPT
                  !.running = IF i = inverter THEN FALSE ELSE @,
                  !.overlay_window = IF @ = "none" THEN "none" ELSE "destroyed"]]
  /\ gui_pc' = "closed"
  /\ join_start' = 0

\* InverterGUI.on_closing (WM_DELETE_WINDOW) up to the join inside
\* WindowsKeyDetector.stop
OnClosing ==
  /\ gui_pc = "idle"
  /\ det_running' = FALSE
  /\ IF detection_thread # 0
     THEN /\ gui_pc' = "closing"
          /\ join_start' = now
          /\ UNCHANGED inv
     ELSE CloseTail
  /\ UNCHANGED <<error_box, nmon, selected, inverter, inversion_enabled,
                 start_button, stop_button, status_label, envVars, key_pressed,
                 press_start_time, detection_thread, callbacks, det_threads,
                 seen_at, fired_since, run_down_since,
                 touched_destroyed, pixVars, vidVars, cbVars, callVars>>

\* the join of on_closing returns; on_closing then runs to its end
CloseJoined ==
  /\ gui_pc = "closing"
  /\ \/ det_threads[detection_thread] = "done"
     \/ now - join_start >= JoinTimeout
  /\ CloseTail
  /\ UNCHANGED <<error_box, nmon, selected, inverter, inversion_enabled,
                 start_button, stop_button, status_label, envVars, detVars,
                 touched_destroyed, pixVars, vidVars, cbVars, callVars>>

\* InverterGUI.refresh_monitors up to the enumeration: line 170 of
\* MonitorManager.refresh_monitors, self.monitors = []
RefreshMonitors ==
  /\ gui_pc = "idle"
  /\ nmon' = 0
  /\ gui_pc' = "refreshing"
  /\ UNCHANGED <<join_start, error_box, selected, inverter, inversion_enabled,
                 start_button, stop_button, status_label,
                 envVars, detVars, invVars, pixVars, vidVars, cbVars, callVars>>

\* EnumDisplayMonitors calls enum_callback for the next monitor: lines
\* 173-180, self.monitors.append(...)
MonitorFound ==
  /\ gui_pc = "refreshing"
  /\ nmon < MaxMon
  /\ nmon' = nmon + 1
  /\ UNCHANGED <<gui_pc, join_start, error_box, selected, inverter,
                 inversion_enabled, start_button, stop_button, status_label,
                 envVars, detVars, invVars, pixVars, vidVars, cbVars, callVars>>

\* EnumDisplayMonitors returns; lines 404-406 give the combobox the new
\* list and select its first entry, if it has one
RefreshDone ==
  /\ gui_pc = "refreshing"
  /\ selected' = IF nmon > 0 THEN 0 ELSE -1
  /\ gui_pc' = "idle"
  /\ UNCHANGED <<join_start, error_box, nmon, inverter, inversion_enabled,
                 start_button, stop_button, status_label,
                 envVars, detVars, invVars, pixVars, vidVars, cbVars, callVars>>

\* the user picks entry i of the read-only combobox
SelectMonitor(i) ==
  /\ gui_pc = "idle"
  /\ i < nmon
  /\ selected' = i
  /\ UNCHANGED <<gui_pc, join_start, error_box, nmon, inverter, inversion_enabled,
                 start_button, stop_button, status_label,
                 envVars, detVars, invVars, pixVars, vidVars, cbVars, callVars>>

\* ------------------------------------------------ VideoWindowDetector
MaxWin == 2           \* top-level windows on the desktop

COMMON_VIDEO_CLASSES ==
  {"MediaPlayerClassicW", "VLC DirectX video output", "Chrome_WidgetWin_1",
   "MozillaWindowClass", "ApplicationFrameWindow", "Windows.UI.Core.CoreWindow"}

\* sub in s (Python's substring test on str)
Contains(s, sub) ==
  \E k \in 1..(Len(s) - Len(sub) + 1) : SubSeq(s, k, k + Len(sub) - 1) = sub

\* str.lower() on one ASCII character
LowerChar(c) ==
  CASE c = "A" -> "a" [] c = "B" -> "b" [] c = "C" -> "c" [] c = "D" -> "d"
    [] c = "E" -> "e" [] c = "F" -> "f" [] c = "G" -> "g" [] c = "H" -> "h"
    [] c = "I" -> "i" [] c = "J" -> "j" [] c = "K" -> "k" [] c = "L" -> "l"
    [] c = "M" -> "m" [] c = "N" -> "n" [] c = "O" -> "o" [] c = "P" -> "p"
    [] c = "Q" -> "q" [] c = "R" -> "r" [] c = "S" -> "s" [] c = "T" -> "t"
    [] c = "U" -> "u" [] c = "V" -> "v" [] c = "W" -> "w" [] c = "X" -> "x"
    [] c = "Y" -> "y" [] c = "Z" -> "z" [] OTHER -> c

\* str.lower()
RECURSIVE Lower(_)
Lower(s) ==
  IF Len(s) = 0 THEN s
  ELSE LowerChar(SubSeq(s, 1, 1)) \o Lower(SubSeq(s, 2, Len(s)))

\* any(video_class in class_name for video_class in COMMON_VIDEO_CLASSES)
HasVideoClass(class_name) ==
  \E video_class \in COMMON_VIDEO_CLASSES : Contains(class_name, video_class)

video_indicators ==
  {"youtube", "netflix", "hulu", "video", "player", "vlc", "media"}

\* any(indicator in window_text.lower() for indicator in video_indicators)
HasVideoIndicator(window_text) ==
  \E indicator \in video_indicators : Contains(Lower(window_text), indicator)

\* is_video_window: GetClassName or GetWindowText raising is caught by the
\* bare except and gives False
is_video_window(w) ==
  IF w.fails = "classify" THEN FALSE
  ELSE HasVideoClass(w.class_name) \/ HasVideoIndicator(w.window_text)

\* the windows of the runs; fails names the query that raises for the
\* window (it was closed while the enumeration was under way)
DesktopWindows ==
  { [visible |-> TRUE, class_name |-> "Chrome_WidgetWin_1",
     window_text |-> "New Tab", rect |-> <<0, 0, 1, 1>>, fails |-> "none"],
    [visible |-> TRUE, class_name |-> "Notepad",
     window_text |-> "Holiday Video.mp4", rect |-> <<1, 1, 2, 2>>, fails |-> "none"],
    [visible |-> TRUE, class_name |-> "Notepad",
     window_text |-> "Untitled", rect |-> <<0, 0, 1, 1>>, fails |-> "none"],
    [visible |-> FALSE, class_name |-> "MozillaWindowClass",
     window_text |-> "YouTube", rect |-> <<1, 1, 2, 2>>, fails |-> "none"],
    [visible |-> TRUE, class_name |-> "MozillaWindowClass",
     window_text |-> "YouTube", rect |-> <<1, 1, 2, 2>>, fails |-> "rect"],
    [visible |-> TRUE, class_name |-> "Notepad",
     window_text |-> "Holiday Video.mp4", rect |-> <<0, 0, 1, 1>>, fails |-> "classify"] }

Desktops == UNION {[1..n -> DesktopWindows] : n \in 0..MaxWin}

\* if current_time - self.last_update < self.update_interval
CacheFresh(current_time) == current_time - last_update < UpdateInterval

\* get_video_windows called by c, line 144: current_time = time.time()
ScanClock(c) ==
  /\ scan_pc[c] = "idle"
  /\ scan_time' = [scan_time EXCEPT ![c] = now]
  /\ scan_pc' = [scan_pc EXCEPT ![c] = "l145"]
  /\ scan_result' = [scan_result EXCEPT ![c] = "pending"]
  /\ UNCHANGED <<video_windows, last_update, scan_idx>>

\* lines 145-146: the test of the cache and the cached return
ScanTest(c) ==
  /\ scan_pc[c] = "l145"
  /\ IF CacheFresh(scan_time[c])
     THEN /\ scan_pc' = [scan_pc EXCEPT ![c] = "idle"]
          /\ scan_result' = [scan_result EXCEPT ![c] = "cached"]
     ELSE /\ scan_pc' = [scan_pc EXCEPT ![c] = "l148"]
          /\ UNCHANGED scan_result
  /\ UNCHANGED <<video_windows, last_update, scan_idx, scan_time>>

\* line 148: self.video_windows.clear(); EnumWindows begins
ScanClear(c) ==
  /\ scan_pc[c] = "l148"
  /\ video_windows' = {}
  /\ scan_pc' = [scan_pc EXCEPT ![c] = "enum"]
  /\ scan_idx' = [scan_idx EXCEPT ![c] = 1]
  /\ UNCHANGED <<last_update, scan_time, scan_result>>

\* lines 150-154: enum_callback on the next window; GetWindowRect raising
\* is not caught: it ends EnumWindows and the call
ScanWindow(c) ==
  /\ scan_pc[c] = "enum" /\ scan_idx[c] <= Len(desktop)
  /\ LET w == desktop[scan_idx[c]]
     IN IF w.visible /\ is_video_window(w)
        THEN IF w.fails = "rect"
             THEN /\ scan_pc' = [scan_pc EXCEPT ![c] = "idle"]
                  /\ scan_result' = [scan_result EXCEPT ![c] = "raised"]
                  /\ UNCHANGED <<video_windows, scan_idx>>
             ELSE /\ video_windows' = video_windows \cup {w.rect}
                  /\ scan_idx' = [scan_idx EXCEPT ![c] = @ + 1]
                  /\ UNCHANGED <<scan_pc, scan_result>>
        ELSE /\ scan_idx' = [scan_idx EXCEPT ![c] = @ + 1]
             /\ UNCHANGED <<video_windows, scan_pc, scan_result>>
  /\ UNCHANGED <<last_update, scan_time>>

\* lines 156-158: EnumWindows is through: self.last_update = current_time;
\* return self.video_windows
ScanEnd(c) ==
  /\ scan_pc[c] = "enum" /\ scan_idx[c] > Len(desktop)
  /\ last_update' = scan_time[c]
  /\ scan_pc' = [scan_pc EXCEPT ![c] = "idle"]
  /\ scan_result' = [scan_result EXCEPT ![c] = "scanned"]
  /\ UNCHANGED <<video_windows, scan_idx, scan_time>>

\* what a call of get_video_windows leaves alone, its caller apart
scanFrame ==
  <<desktop, pix_pc, monitor_rect, screenshot, img,
    envVars, detVars, guiVars, cbVars, callVars>>

\* get_video_windows called by c, up to EnumWindows
GetVideoWindows(c) ==
  /\ ScanClock(c) \/ ScanTest(c) \/ ScanClear(c)
  /\ UNCHANGED <<invVars, scanFrame>>

\* EnumWindows hands the next window to enum_callback
EnumCallback(c) ==
  /\ ScanWindow(c)
  /\ UNCHANGED <<invVars, scanFrame>>

\* the call made by c returns
ScanReturn(c) ==
  /\ ScanEnd(c)
  /\ UNCHANGED <<invVars, scanFrame>>

\* between two calls a window opens: it comes last in the enumeration
WindowOpens(w) ==
  /\ \A c \in InvIds : scan_pc[c] = "idle"
  /\ Len(desktop) < MaxWin
  /\ desktop' = Append(desktop, w)
  /\ UNCHANGED <<last_update, scan_pc, scan_idx, scan_time, scan_result,
                 envVars, detVars, guiVars, invVars, pixVars, cbVars, callVars>>

\* between two calls the k-th window closes
WindowCloses(k) ==
  /\ \A c \in InvIds : scan_pc[c] = "idle"
  /\ k \in DOMAIN desktop
  /\ desktop' = [j \in 1..(Len(desktop) - 1) |->
                   IF j < k THEN desktop[j] ELSE desktop[j + 1]]
  /\ UNCHANGED <<last_update, scan_pc, scan_idx, scan_time, scan_result,
                 envVars, detVars, guiVars, invVars, pixVars, cbVars, callVars>>

\* ---------------------------------------------------------- ColorInverter
\* if self.canvas and self.overlay_window.winfo_exists()
CanvasUsable(i) == inv[i].canvas # "none" /\ inv[i].overlay_window = "alive"

CycleBranch_always_captures(active) == "capture"

\* if self.inversion_active: ... else: ...   -- the branch one cycle takes;
\* "capture" grabs the screen, scans the video windows and prepares a frame
CycleBranch(active) == IF active THEN "capture" ELSE "clear"

\* the capture thread of object i goes on to the given place
CaptureGoto(i, place) == inv' = [inv EXCEPT ![i].capture_thread = place]

\* what the capture thread leaves alone in the steps that only move it
captureFrame ==
  <<touched_destroyed, envVars, detVars, guiVars, pixVars, vidVars,
    cbVars, callVars>>

\* capture_and_invert of object i, line 266: while self.running
CaptureCycle(i) ==
  /\ inv[i].capture_thread = "loop"
  /\ CaptureGoto(i, IF inv[i].running THEN "l268" ELSE "stopped")
  /\ UNCHANGED captureFrame

\* line 268: if self.inversion_active
ReadActive(i) ==
  /\ inv[i].capture_thread = "l268"
  /\ CaptureGoto(i, IF CycleBranch(inv[i].inversion_active) = "capture"
                    THEN "grab" ELSE "clear_test")
  /\ UNCHANGED captureFrame

\* lines 270-275: sct.grab, the conversion and the inversion.
\* captureOk = FALSE: one of them raises, the handler of line 297 prints
\* and breaks
Capture(i, captureOk) ==
  /\ inv[i].capture_thread = "grab"
  /\ CaptureGoto(i, IF captureOk THEN "scan" ELSE "capture_failed")
  /\ UNCHANGED captureFrame

\* line 278: self.video_detector.get_video_windows(), a line of the call
\* at a time; an exception of the call reaches the handler of line 297
CaptureScan(i) ==
  /\ inv[i].capture_thread = "scan"
  /\ \/ ScanClock(i)
     \/ ScanTest(i)
     \/ ScanClear(i)
     \/ ScanWindow(i)
     \/ ScanEnd(i)
  /\ CaptureGoto(i, IF scan_pc'[i] # "idle" THEN "scan"
                    ELSE IF scan_result'[i] = "raised" THEN "capture_failed"
                    ELSE "mask")
  /\ UNCHANGED <<touched_destroyed, scanFrame>>

\* lines 279-280: if video_windows: mask_video_regions(...), which
\* iterates over the set get_video_windows returned, the detector's own
\* set object.  maskOk = FALSE: another thread's scan changes the set
\* during the iteration, the for statement raises RuntimeError and the
\* handler of line 297 breaks
Mask(i, maskOk) ==
  /\ inv[i].capture_thread = "mask"
  /\ \/ maskOk
     \/ /\ video_windows # {}
        /\ \E c \in InvIds \ {i} : scan_pc[c] \in {"l148", "enum"}
  /\ CaptureGoto(i, IF maskOk THEN "photo" ELSE "capture_failed")
  /\ UNCHANGED captureFrame

\* lines 283-284: Image.fromarray and ImageTk.PhotoImage, a Tk call (it
\* raises once the root window is destroyed)
Photo(i) ==
  /\ inv[i].capture_thread = "photo"
  /\ MainLoopServes \/ TkGone
  /\ CaptureGoto(i, IF TkGone THEN "capture_failed" ELSE "draw_test")
  /\ UNCHANGED captureFrame

\* line 286 or 292: if self.canvas and self.overlay_window.winfo_exists().
\* winfo_exists is a Tk call: 0 on a destroyed window, an error once the
\* application is destroyed
CanvasTest(i) ==
  /\ inv[i].capture_thread \in {"draw_test", "clear_test"}
  /\ inv[i].canvas = "none" \/ MainLoopServes \/ TkGone
  /\ CaptureGoto(i, IF inv[i].canvas # "none" /\ TkGone THEN "draw_failed"
                    ELSE IF ~CanvasUsable(i) THEN "loop"
                    ELSE IF inv[i].capture_thread = "draw_test" THEN "draw"
                    ELSE "clear")
  /\ UNCHANGED captureFrame

\* line 287 or 293: self.canvas.delete("all"); on a destroyed window it
\* raises TclError and the handler breaks
CanvasDelete(i) ==
  /\ inv[i].capture_thread \in {"draw", "clear"}
  /\ MainLoopServes \/ TkGone
  /\ IF inv[i].overlay_window = "destroyed"
     THEN /\ touched_destroyed' = TRUE
          /\ CaptureGoto(i, "draw_failed")
     ELSE /\ inv' = [inv EXCEPT
                       ![i].canvas = "blank",
                       ![i].capture_thread = IF inv[i].capture_thread = "draw"
                                             THEN "create" ELSE "loop"]
          /\ UNCHANGED touched_destroyed
  /\ UNCHANGED <<envVars, detVars, guiVars, pixVars, vidVars, cbVars, callVars>>

\* lines 288-289: self.canvas.create_image and the reference kept in
\* self.canvas.image
CanvasCreate(i) ==
  /\ inv[i].capture_thread = "create"
  /\ MainLoopServes \/ TkGone
  /\ IF inv[i].overlay_window = "destroyed"
     THEN /\ touched_destroyed' = TRUE
          /\ CaptureGoto(i, "draw_failed")
     ELSE /\ inv' = [inv EXCEPT ![i].canvas = "frame",
                                ![i].capture_thread = "loop"]
          /\ UNCHANGED touched_destroyed
  /\ UNCHANGED <<envVars, detVars, guiVars, pixVars, vidVars, cbVars, callVars>>

\* one step of the capture thread of object i
CaptureStep(i) ==
  \/ CaptureCycle(i)
  \/ ReadActive(i)
  \/ \E ok \in BOOLEAN : Capture(i, ok)
  \/ CaptureScan(i)
  \/ \E ok \in BOOLEAN : Mask(i, ok)
  \/ Photo(i)
  \/ CanvasTest(i)
  \/ CanvasDelete(i)
  \/ CanvasCreate(i)

\* ---------------------------------------------------------- specification
Next ==
  \/ Tick
  \/ KeyChange
  \/ \E t \in InvIds : DetectorStep(t)
  \/ \E fail \in {"none"} \cup OverlayFailures : StartDetection(fail)
  \/ RegisterToggle
  \/ StartDetector
  \/ StartThread
  \/ DisableStart
  \/ EnableStop
  \/ StartLabel
  \/ DismissDialog
  \/ StopDetection
  \/ StopJoined
  \/ StopForget
  \/ StopReset
  \/ OnClosing
  \/ CloseJoined
  \/ RefreshMonitors
  \/ MonitorFound
  \/ RefreshDone
  \/ \E i \in 0..(MaxMon - 1) : SelectMonitor(i)
  \/ \E i \in InvIds : CaptureStep(i)
  \/ \E w \in DesktopWindows : WindowOpens(w)
  \/ \E k \in 1..MaxWin : WindowCloses(k)

Spec == Init /\ [][Next]_vars

\* the detector alone, one session: start_detection once, then the clock,
\* the key and the detection thread a line at a time
HoldNext ==
  \/ Tick
  \/ KeyChange
  \/ \E t \in InvIds : DetectorStep(t)
  \/ NumInverters = 0 /\ StartDetection("none")
  \/ RegisterToggle
  \/ StartDetector
  \/ StartThread
  \/ DisableStart
  \/ EnableStop
  \/ StartLabel

HoldSpec == Init /\ [][HoldNext]_vars

\* one restart as the window allows it (a disabled button runs no command):
\* start, stop, start, with the clock, the key and the detection threads a
\* line at a time.  The clock stops at RestartHorizon.  Without the capture
\* threads: they write only capture_thread, canvas, touched_destroyed and
\* the video-window set, which no action of RestartNext reads
RestartHorizon == 5

RestartNext ==
  \/ now < RestartHorizon /\ Tick
  \/ KeyChange
  \/ \E t \in InvIds : DetectorStep(t)
  \/ start_button = "normal" /\ StartDetection("none")
  \/ RegisterToggle
  \/ StartDetector
  \/ StartThread
  \/ DisableStart
  \/ EnableStop
  \/ StartLabel
  \/ stop_button = "normal" /\ NumInverters = 1 /\ StopDetection
  \/ StopJoined
  \/ StopForget
  \/ StopReset

RestartSpec == Init /\ [][RestartNext]_vars

\* the control thread alone, with the monitor list changing under it: the
\* clock and the key stand still, so the detection threads only end, and
\* no capture thread takes a step
SelNext ==
  \/ \E t \in InvIds : LoopExit(t)
  \/ \E fail \in {"none"} \cup OverlayFailures : StartDetection(fail)
  \/ RegisterToggle
  \/ StartDetector
  \/ StartThread
  \/ DisableStart
  \/ EnableStop
  \/ StartLabel
  \/ DismissDialog
  \/ StopDetection
  \/ StopJoined
  \/ StopForget
  \/ StopReset
  \/ OnClosing
  \/ CloseJoined
  \/ RefreshMonitors
  \/ MonitorFound
  \/ RefreshDone
  \/ \E i \in 0..(MaxMon - 1) : SelectMonitor(i)

SelSpec == Init /\ [][SelNext]_vars

\* ------------------------------- ColorInverter objects and their threads
\* the desktops of these runs: empty, or one visible video window whose
\* rectangle can or cannot be read
InvDesktops ==
  {<<>>} \cup {<<w>> : w \in {v \in DesktopWindows :
                                v.visible /\ HasVideoClass(v.class_name)}}

InvInit ==
  /\ CtlInit /\ PixOff /\ CbOff
  /\ desktop \in InvDesktops /\ last_update = 0
  /\ ScanOff

\* lines 433-434: ColorInverter(...) and start() on the new object, as the
\* window allows it: the Start button is disabled from a successful start
\* (line 440) to the next stop (line 457), so every session before this
\* one has been stopped or has failed to start
NewSession(fail) ==
  LET id == NumInverters + 1 IN
  /\ NumInverters < MaxInv
  /\ \A i \in InvIds : inv[i].running => inv[i].capture_thread = "none"
  /\ inv' = [inv EXCEPT ![id] = StartedInverter(fail)]
  /\ UNCHANGED <<touched_destroyed, envVars, detVars, guiVars, pixVars,
                 vidVars, cbVars, callVars>>

\* ColorInverter.set_inversion_active(active) on object i
SetInversionActive(i, active) ==
  /\ inv[i].created
  /\ inv' = set_inversion_active(i, active)
  /\ UNCHANGED <<touched_destroyed, envVars, detVars, guiVars, pixVars,
                 vidVars, cbVars, callVars>>

\* ColorInverter.stop() on object i
StopCall(i) ==
  /\ inv[i].created
  /\ inv' = InverterStop(i)
  /\ UNCHANGED <<touched_destroyed, envVars, detVars, guiVars, pixVars,
                 vidVars, cbVars, callVars>>

\* the objects as start_detection makes them, each constructed and started
\* once, and their capture threads; set_inversion_active and stop are
\* called at any moment, while the main loop runs
InvNext ==
  \/ \E fail \in {"none"} \cup OverlayFailures : NewSession(fail)
  \/ \E i \in InvIds, active \in BOOLEAN : SetInversionActive(i, active)
  \/ \E i \in InvIds : StopCall(i)
  \/ \E i \in InvIds : CaptureStep(i)

InvSpec == InvInit /\ [][InvNext]_vars

\* -------------------------------------------------- the pixel pipeline
Max(a, b) == IF a >= b THEN a ELSE b
Min(a, b) == IF a <= b THEN a ELSE b

\* cv2.bitwise_and on 8-bit values
RECURSIVE BitAnd(_, _)
BitAnd(a, b) ==
  IF a = 0 \/ b = 0 THEN 0
  ELSE (a % 2) * (b % 2) + 2 * BitAnd(a \div 2, b \div 2)

\* the <<row, column>> indices of an array of the monitor's size
Pixels(mrect) ==
  (0 .. (mrect[4] - mrect[2] - 1)) \X (0 .. (mrect[3] - mrect[1] - 1))

\* cv2.cvtColor(img, cv2.COLOR_BGRA2RGB)
CvtColor(shot) ==
  [p \in DOMAIN shot |-> <<shot[p][3], shot[p][2], shot[p][1]>>]

invert_colors_from_256(image) ==
  [p \in DOMAIN image |-> [c \in 1..3 |-> (256 - image[p][c]) % 256]]

\* ColorInverter.invert_colors on a uint8 array
invert_colors(image) ==
  [p \in DOMAIN image |-> [c \in 1..3 |-> (255 - image[p][c]) % 256]]

RelRect_screen_coords(video_rect, mrect) ==
  [rel_x |-> Max(0, video_rect[1]),
   rel_y |-> Max(0, video_rect[2]),
   rel_right |-> Min(mrect[3] - mrect[1], video_rect[3]),
   rel_bottom |-> Min(mrect[4] - mrect[2], video_rect[4])]

\* mask_video_regions: the video rectangle in monitor-relative coordinates
RelRect(video_rect, mrect) ==
  [rel_x |-> Max(0, video_rect[1] - mrect[1]),
   rel_y |-> Max(0, video_rect[2] - mrect[2]),
   rel_right |-> Min(mrect[3] - mrect[1], video_rect[3] - mrect[1]),
   rel_bottom |-> Min(mrect[4] - mrect[2], video_rect[4] - mrect[2])]

\* mask[rel_y:rel_bottom, rel_x:rel_right] = 0 covers pixel p
Zeroed(p, rel) ==
  /\ rel.rel_x < rel.rel_right /\ rel.rel_y < rel.rel_bottom
  /\ rel.rel_y <= p[1] /\ p[1] < rel.rel_bottom
  /\ rel.rel_x <= p[2] /\ p[2] < rel.rel_right

\* the mask array of mask_video_regions
MaskOf(image, windows, mrect) ==
  [p \in DOMAIN image |->
     IF \E r \in windows : Zeroed(p, RelRect(r, mrect)) THEN 0 ELSE 255]

\* ColorInverter.mask_video_regions
mask_video_regions(image, windows, mrect) ==
  IF windows = {} THEN image
  ELSE [p \in DOMAIN image |->
          [c \in 1..3 |-> BitAnd(image[p][c], MaskOf(image, windows, mrect)[p])]]

\* the monitors of the pixel runs: at the origin, right of and below it,
\* left of and above it
Monitors ==
  { <<0, 0, MonSize, MonSize>>,
    <<MonSize, 1, 2 * MonSize, MonSize + 1>>,
    <<-MonSize, -1, 0, MonSize - 1>> }

Coords == (-MonSize - 1) .. (2 * MonSize + 1)

\* window rectangles as GetWindowRect gives them (empty ones included)
Rects ==
  {r \in Coords \X Coords \X Coords \X Coords : r[1] <= r[3] /\ r[2] <= r[4]}

\* BGRA pixel values a grab is filled with
Palette == << <<0, 0, 0, 255>>, <<255, 255, 255, 255>>, <<10, 128, 200, 255>> >>

Screenshots(mrect) ==
  { [p \in Pixels(mrect) |->
       Palette[((p[1] * (mrect[3] - mrect[1]) + p[2] + k) % Len(Palette)) + 1]]
    : k \in 0 .. (Len(Palette) - 1) }

\* a window get_video_windows takes for a video window, at rectangle r
VideoWindowAt(r) ==
  [visible |-> TRUE, class_name |-> "Chrome_WidgetWin_1",
   window_text |-> "New Tab", rect |-> r, fails |-> "none"]

\* the desktops of the pixel runs: no video window, or one at any rectangle
PixDesktops == {<<>>} \cup {<<VideoWindowAt(r)>> : r \in Rects}

\* the first frame of a new ColorInverter with a new VideoWindowDetector
\* (lines 117-121: nothing scanned yet), the grab of line 270 made
PixInit ==
  /\ CtlInit /\ nmon = 1
  /\ pix_pc = "grabbed"
  /\ monitor_rect \in Monitors
  /\ video_windows = {}
  /\ screenshot \in Screenshots(monitor_rect)
  /\ img = <<>>
  /\ desktop \in PixDesktops /\ last_update = 0
  /\ ScanOff /\ CbOff

\* the caller of get_video_windows in the pixel runs
PixCaller == 1

\* capture_and_invert, lines 271-275: np.array, cvtColor, invert_colors
PixInvert ==
  /\ pix_pc = "grabbed"
  /\ img' = invert_colors(CvtColor(screenshot))
  /\ pix_pc' = "inverted"
  /\ UNCHANGED <<monitor_rect, video_windows, screenshot,
                 envVars, detVars, guiVars, invVars, vidVars, cbVars, callVars>>

\* capture_and_invert, line 278:
\* video_windows = self.video_detector.get_video_windows(), a line of the
\* call at a time; an exception of the call reaches the handler of line 297
\* and no frame is made
PixScan ==
  /\ pix_pc = "inverted"
  /\ \/ ScanClock(PixCaller)
     \/ ScanTest(PixCaller)
     \/ ScanClear(PixCaller)
     \/ ScanWindow(PixCaller)
     \/ ScanEnd(PixCaller)
  /\ pix_pc' = IF scan_pc'[PixCaller] # "idle" THEN "inverted"
               ELSE IF scan_result'[PixCaller] = "raised" THEN "failed"
               ELSE "scanned"
  /\ UNCHANGED <<desktop, monitor_rect, screenshot, img,
                 envVars, detVars, guiVars, invVars, cbVars, callVars>>

\* capture_and_invert, lines 279-280: if video_windows:
\* inverted = mask_video_regions(inverted, video_windows), on the set the
\* call of line 278 returned; the result is the frame given to the canvas
PixMask ==
  /\ pix_pc = "scanned"
  /\ img' = IF video_windows # {}
            THEN mask_video_regions(img, video_windows, monitor_rect)
            ELSE img
  /\ pix_pc' = "masked"
  /\ UNCHANGED <<monitor_rect, video_windows, screenshot,
                 envVars, detVars, guiVars, invVars, vidVars, cbVars, callVars>>

PixNext == PixInvert \/ PixScan \/ PixMask

PixSpec == PixInit /\ [][PixNext]_vars

\* one-pixel grabs whose channels between them take every uint8 value
ChannelShots ==
  { [p \in Pixels(<<0, 0, 1, 1>>) |->
       <<v, (v + 85) % 256, (v + 170) % 256, 255>>] : v \in 0..255 }

ChanInit ==
  /\ CtlInit /\ nmon = 1
  /\ pix_pc = "grabbed"
  /\ monitor_rect = <<0, 0, 1, 1>>
  /\ video_windows = {}
  /\ screenshot \in ChannelShots
  /\ img = <<>>
  /\ VidOff /\ CbOff

ChanSpec == ChanInit /\ [][PixNext]_vars

\* -------------------------------- VideoWindowDetector under its callers
VidInit ==
  /\ CtlInit /\ nmon = 1
  /\ PixOff
  /\ desktop \in Desktops /\ last_update = 0
  /\ ScanOff
  /\ CbOff

\* the callers of get_video_windows in the runs of the detector alone
ScanCallers == {1}

VidNext ==
  \/ Tick
  \/ \E c \in ScanCallers : GetVideoWindows(c)
  \/ \E c \in ScanCallers : EnumCallback(c)
  \/ \E c \in ScanCallers : ScanReturn(c)
  \/ \E w \in DesktopWindows : WindowOpens(w)
  \/ \E k \in 1..MaxWin : WindowCloses(k)

VidSpec == VidInit /\ [][VidNext]_vars


\* --------------------- WindowsKeyDetector, its callback loop step by step
MaxCb == 2            \* length of self.callbacks

\* the callables registered in these runs
CallbackNames == {"cb1", "cb2"}

\* list.remove(x): the first occurrence goes, the rest move down
RECURSIVE ListRemove(_, _)
ListRemove(list, x) ==
  IF list = <<>> THEN <<>>
  ELSE IF Head(list) = x THEN Tail(list)
  ELSE <<Head(list)>> \o ListRemove(Tail(list), x)

NextIndex_propagates(raised, idx) ==
  IF raised THEN Len(callbacks) ELSE idx + 1

\* try: callback() except Exception: print(...)  -- whether the callback
\* returned or raised, the for loop goes on to the next index
NextIndex(raised, idx) == idx + 1

cbFrame == <<guiVars, invVars, pixVars, vidVars, callVars>>

\* WindowsKeyDetector.start() on the constructed detector
CbStart ==
  /\ ~det_running
  /\ DetectorStart
  /\ UNCHANGED <<key_pressed, press_start_time, callbacks, seen_at,
                 fired_since, envVars, cbVars, cbFrame>>

\* WindowsKeyDetector.add_callback, on the control thread
AddCallback(cb) ==
  /\ Len(callbacks) < MaxCb
  /\ callbacks' = Append(callbacks, cb)
  /\ touched' = IF fire_pc = "iter" THEN touched \cup {cb} ELSE touched
  /\ UNCHANGED <<key_pressed, press_start_time, det_running, detection_thread,
                 det_threads, seen_at, fired_since, run_down_since, fire_pc, fire_idx,
                 fire_time, invoked, at_fire, raised_earlier, envVars, cbFrame>>

\* WindowsKeyDetector.remove_callback, on the control thread
RemoveCallback(cb) ==
  /\ callbacks' = IF \E k \in DOMAIN callbacks : callbacks[k] = cb
                  THEN ListRemove(callbacks, cb) ELSE callbacks
  /\ touched' = IF fire_pc = "iter" /\ callbacks' # callbacks
                THEN touched \cup {cb} ELSE touched
  /\ UNCHANGED <<key_pressed, press_start_time, det_running, detection_thread,
                 det_threads, seen_at, fired_since, run_down_since, fire_pc, fire_idx,
                 fire_time, invoked, at_fire, raised_earlier, envVars, cbFrame>>

\* detection_loop: one iteration up to the for statement
CbPoll ==
  /\ fire_pc = "poll" /\ det_threads[1] = "run" /\ det_running
  /\ LET current_pressed == keyDown
         current_time == now
     IN IF current_pressed /\ ~key_pressed
        THEN /\ key_pressed' = TRUE
             /\ press_start_time' = current_time
             /\ UNCHANGED cbVars
        ELSE IF ~current_pressed /\ key_pressed
        THEN /\ key_pressed' = FALSE
             /\ press_start_time' = 0
             /\ UNCHANGED cbVars
        ELSE IF current_pressed /\ key_pressed
                /\ HoldReached(current_time - press_start_time)
        THEN /\ fire_pc' = "iter" /\ fire_idx' = 0 /\ fire_time' = current_time
             /\ invoked' = <<>> /\ at_fire' = callbacks /\ touched' = {}
             /\ UNCHANGED <<raised_earlier, key_pressed, press_start_time>>
        ELSE UNCHANGED <<key_pressed, press_start_time, cbVars, callVars>>
  /\ UNCHANGED <<det_running, detection_thread, det_threads, callbacks,
                 seen_at, fired_since, run_down_since, envVars, cbFrame>>

\* for callback in self.callbacks: the iterator fetches the item at its
\* index from the list as it is now, and the callback returns or raises
CbInvoke(raised) ==
  /\ fire_pc = "iter" /\ fire_idx < Len(callbacks)
  /\ invoked' = Append(invoked, <<callbacks[fire_idx + 1], raised>>)
  /\ fire_idx' = NextIndex(raised, fire_idx)
  /\ UNCHANGED <<fire_pc, fire_time, at_fire, touched, raised_earlier,
                 detVars, envVars, cbFrame>>

\* the iterator is exhausted: self.press_start_time = current_time
CbFireEnd ==
  /\ fire_pc = "iter" /\ fire_idx >= Len(callbacks)
  /\ press_start_time' = fire_time
  /\ fire_pc' = "poll" /\ fire_idx' = 0 /\ fire_time' = 0
  /\ invoked' = <<>> /\ at_fire' = <<>> /\ touched' = {}
  /\ raised_earlier' =
       (raised_earlier \/ \E k \in DOMAIN invoked : invoked[k][2])
  /\ UNCHANGED <<key_pressed, det_running, detection_thread, det_threads,
                 callbacks, seen_at, fired_since, run_down_since, envVars, cbFrame>>

CbNext ==
  \/ Tick
  \/ KeyChange
  \/ CbStart
  \/ \E cb \in CallbackNames : AddCallback(cb)
  \/ \E cb \in CallbackNames : RemoveCallback(cb)
  \/ CbPoll
  \/ \E raised \in BOOLEAN : CbInvoke(raised)
  \/ CbFireEnd

\* a constructed detector, nothing registered yet
CbInit == Init /\ nmon = 1

CbSpec == CbInit /\ [][CbNext]_vars

\* ------------------------------- claims on the detector and the controller
\* a step of detection_loop that fires the callbacks: a poll finds the
\* hold long enough and goes on to the for loop
FireStep ==
  \E t \in InvIds : det_threads[t] # "iter" /\ det_threads'[t] = "iter"

\* the step that ends a fire of thread t: the for loop is through
FireDone(t) == det_threads[t] = "iter" /\ det_threads'[t] = "l84"

\* the step in which thread t, having found the key up while a press was
\* recorded, records the release (line 69)
ReleaseStep(t) == det_threads[t] = "l69" /\ det_threads'[t] = "l70"

\* the step in which thread t has dealt with the release (line 70)
ReleaseDone(t) == det_threads[t] = "l70" /\ det_threads'[t] = "run"

\* C1: while the key is continuously observed down, the callbacks fire once:
\* no poll fires them when they have already fired since the press was
\* recorded (a re-fire needs an observed release and a new press).
C1_SingleFire == [][FireStep => ~fired_since]_vars

\* C2: when a poll observes the release of a press recorded less than
\* hold_duration before, no callback has been invoked since that press was
\* recorded; when the poll has dealt with the release the hold state is
\* idle again (key_pressed false, press_start_time 0); and no callback is
\* invoked while the hold state is idle.
C2_NoFireBelowThreshold ==
  [][/\ \A t \in InvIds :
          /\ (ReleaseStep(t) /\ det_local[t].time - seen_at < HoldDuration)
                => ~fired_since /\ ~fired_since'
          /\ ReleaseDone(t) => ~key_pressed' /\ press_start_time' = 0
     /\ FireStep => key_pressed]_vars

\* C3: every gesture fire in a session (the inverter that existed when the
\* fire began still is the controller's when it ends) flips the active flag
\* exactly once.
C3_FireFlipsOnce ==
  [][\A t \in InvIds :
       (FireDone(t) /\ inverter # 0 /\ det_local[t].session = inverter)
         => det_local[t].flips = 1]_vars

\* the positions of a capture thread inside its loop
CaptureLoopPcs ==
  {"loop", "l268", "grab", "scan", "mask", "photo", "draw_test", "clear_test",
   "draw", "create", "clear"}

OverlaySurfaces == {i \in InvIds : inv[i].overlay_window = "alive"}
RunningCaptureLoops ==
  {i \in InvIds : inv[i].running
                  /\ inv[i].capture_thread \in CaptureLoopPcs}

\* C4: at any time at most one overlay surface exists and at most one
\* capture loop is running.
C4_AtMostOne ==
  /\ Cardinality(OverlaySurfaces) <= 1
  /\ Cardinality(RunningCaptureLoops) <= 1

\* C5: no capture loop touches its canvas after the overlay window has been
\* destroyed.
C5_NoTouchAfterDestroy == ~touched_destroyed

\* C6: a capture error never ends a capture loop.
C6_CaptureErrorSkipped ==
  \A i \in InvIds : inv[i].capture_thread # "capture_failed"

\* the step of start_detection that ends in the "Failed to start" box
StartFailedStep ==
  gui_pc = "idle" /\ gui_pc' = "dialog" /\ error_box' = StartFailedMsg

\* C9: a start_detection that fails in overlay creation leaves the
\* controller as it was before the call, stopped: no inverter is retained,
\* no running flag set, no loop started, no callback registered.
C9_FailedStartChangesNothing ==
  [][StartFailedStep =>
       /\ inverter' = inverter
       /\ \A i \in InvIds : inv'[i].running = inv[i].running
       /\ \A i \in InvIds : inv'[i].capture_thread = inv[i].capture_thread
       /\ det_running' = det_running /\ det_threads' = det_threads
       /\ callbacks' = callbacks]_vars

\* the step of start_detection that ends in the "Please select" box
NoMonitorStep ==
  gui_pc = "idle" /\ gui_pc' = "dialog" /\ error_box' = NoMonitorMsg

\* C10: with no monitor selected, start_detection shows the error box and
\* changes nothing else; and while no monitor is selected no step creates an
\* inverter, registers a callback or starts the detector.
C10_NoMonitorNoMutation ==
  [][/\ NoMonitorStep =>
          UNCHANGED <<inverter, inversion_enabled, inv, callbacks, det_running,
                      detection_thread, det_threads, key_pressed,
                      press_start_time, start_button, stop_button,
                      status_label, nmon, selected>>
     /\ selected < 0 =>
          /\ \A i \in InvIds : inv'[i].created = inv[i].created
          /\ callbacks' = callbacks
          /\ det_running' => det_running
          /\ \A t \in InvIds : det_threads[t] = "none" => det_threads'[t] = "none"
          /\ (gui_pc = "idle" /\ gui_pc' = "dialog") => error_box' = NoMonitorMsg
    ]_vars

\* start_detection is showing the "Please select" box while the monitor
\* list is empty
C10_Witness ==
  gui_pc = "dialog" /\ error_box = NoMonitorMsg /\ nmon = 0 /\ selected < 0

\* ------------------------------------------ claims on the pixel pipeline
\* the screen point shown at pixel p of the monitor lies in rectangle r
InScreenRect(p, r) ==
  /\ r[1] <= monitor_rect[1] + p[2] /\ monitor_rect[1] + p[2] < r[3]
  /\ r[2] <= monitor_rect[2] + p[1] /\ monitor_rect[2] + p[1] < r[4]

\* rectangle r lies fully inside the monitor
InsideMonitor(r) ==
  /\ monitor_rect[1] <= r[1] /\ r[3] <= monitor_rect[3]
  /\ monitor_rect[2] <= r[2] /\ r[4] <= monitor_rect[4]

\* rectangle r lies fully outside the monitor on some side
OutsideMonitor(r) ==
  \/ r[3] <= monitor_rect[1] \/ r[1] >= monitor_rect[3]
  \/ r[4] <= monitor_rect[2] \/ r[2] >= monitor_rect[4]

\* C7: with a single excluded rectangle fully inside the monitor, the frame
\* given to the renderer holds the captured value at every pixel inside the
\* rectangle and 255 minus the captured value at every pixel outside it.
C7_ExclusionCorrect ==
  (pix_pc = "masked" /\ \E r \in video_windows :
                           video_windows = {r} /\ InsideMonitor(r)) =>
    \A p \in DOMAIN img : \A c \in 1..3 :
      img[p][c] = IF \E r \in video_windows : InScreenRect(p, r)
                  THEN CvtColor(screenshot)[p][c]
                  ELSE 255 - CvtColor(screenshot)[p][c]

\* C8: mask_video_regions changes a pixel only if its screen point lies in
\* an excluded rectangle (so only inside the rectangle's intersection with
\* the monitor), whatever the monitor's origin; a rectangle fully outside
\* the monitor leaves the frame as it was.
C8_Clipping ==
  [][(pix_pc = "scanned" /\ pix_pc' = "masked") =>
       /\ DOMAIN img' = DOMAIN img
       /\ \A p \in DOMAIN img :
            img'[p] # img[p] => \E r \in video_windows : InScreenRect(p, r)
       /\ (\A r \in video_windows : OutsideMonitor(r)) => img' = img]_vars

\* a monitor whose origin is not (0,0), a rectangle that sticks out of it,
\* and a frame in which the mask changed some pixels and left others
C8_Witness ==
  /\ pix_pc = "masked"
  /\ monitor_rect[1] # 0 /\ monitor_rect[2] # 0
  /\ \E r \in video_windows : ~InsideMonitor(r) /\ ~OutsideMonitor(r)
  /\ \E p \in DOMAIN img : img[p] # invert_colors(CvtColor(screenshot))[p]
  /\ \E p \in DOMAIN img : img[p] = invert_colors(CvtColor(screenshot))[p]


\* C19: after stop() and start(), the callbacks fire only when the polls of
\* the restarted detector have seen the key down without a break for at
\* least hold_duration; a press recorded before stop() does not count.
C19_NoLeakAcrossRestart ==
  [][FireStep => /\ run_down_since # 0
                 /\ now - run_down_since >= HoldDuration]_vars


\* the detection threads that are alive and find self.running true at
\* their next while test
PollingLoops ==
  {t \in InvIds : det_threads[t] \notin {"none", "done"} /\ det_running}

\* C20: however start() and stop() interleave with the detection thread,
\* a stop() that gave up waiting included, at most one detection loop
\* polls the key at any time.
C20_SingleLoop == Cardinality(PollingLoops) <= 1

\* ------------------------------------- claims on the video-window detector
\* set(...) over a sequence
Range(f) == {f[k] : k \in DOMAIN f}

\* the rectangles of the visible video windows
VisibleVideoRects(d) ==
  {w.rect : w \in {v \in Range(d) : v.visible /\ is_video_window(v)}}

\* the same, leaving out the windows whose rectangle query fails
AnsweringVideoRects(d) ==
  {w.rect : w \in {v \in Range(d) :
                     v.visible /\ is_video_window(v) /\ v.fails # "rect"}}

\* C11: a re-enumeration ends by returning normally, whatever queries fail
\* on single windows: the failing window is skipped, the stored set holds
\* the rectangles of all other visible video windows, and last_update is
\* the time of the call.
C11_FailureIsolated ==
  [][\A c \in InvIds :
       (scan_pc[c] = "enum" /\ scan_pc'[c] = "idle")
         => /\ scan_result'[c] = "scanned"
            /\ video_windows' = AnsweringVideoRects(desktop)
            /\ last_update' = scan_time[c]]_vars


\* C14: the stored set, which every caller of get_video_windows holds by
\* reference, changes only by being replaced wholesale: after any step it
\* is the set it was before or the complete set of the scan (counted with
\* or without the windows whose rectangle cannot be read), never an emptied
\* or partly rebuilt one.
C14_ConsistentSnapshot ==
  [][\/ video_windows' = video_windows
     \/ video_windows' = VisibleVideoRects(desktop)
     \/ video_windows' = AnsweringVideoRects(desktop)]_vars


\* C16: while less than update_interval has passed since the last completed
\* scan, a call returns the stored set: nothing is enumerated and neither
\* the set nor last_update changes.  A call made at or after update_interval
\* enumerates all windows again, and the set it returns holds exactly the
\* rectangles of the windows visible and classified as video at that scan.
C16_CacheFreshness ==
  [][\A c \in InvIds :
       LET fresh == scan_time[c] - last_update < UpdateInterval IN
       /\ (scan_pc[c] = "l145" /\ scan_pc'[c] # "l145")
            => /\ UNCHANGED <<video_windows, last_update, scan_idx>>
               /\ fresh => scan_pc'[c] = "idle" /\ scan_result'[c] = "cached"
               /\ ~fresh => scan_pc'[c] = "l148"
       /\ (scan_pc[c] = "l148" /\ scan_pc'[c] # "l148")
            => scan_pc'[c] = "enum" /\ scan_idx'[c] = 1
       /\ (scan_pc[c] = "enum" /\ scan_result'[c] = "scanned")
            => /\ scan_idx[c] > Len(desktop)
               /\ video_windows' = VisibleVideoRects(desktop)
               /\ last_update' = scan_time[c]]_vars

\* C18: with no call of start_detection, stop_detection or
\* toggle_inversion under way, whenever self.inverter
\* is set the controller's inversion_enabled equals that object's
\* inversion_active (a session just started has both false), and while no
\* inverter exists inversion_enabled is false.
C18_FlagAgreement ==
  (gui_pc \in {"idle", "dialog"} /\ \A t \in InvIds : toggle_pc[t] = "out") =>
    /\ inverter # 0 => inversion_enabled = inv[inverter].inversion_active
    /\ inverter = 0 => ~inversion_enabled

\* ------------------------------------------- claims on the capture cycle
\* the step in which capture thread i, in a cycle of its loop, reads the
\* active flag (line 268)
CycleStep(i) ==
  /\ inv[i].capture_thread = "l268"
  /\ inv'[i].capture_thread # "l268"

\* the positions of a capture thread inside the capturing branch
CapturingPcs ==
  {"grab", "scan", "mask", "photo", "draw_test", "draw", "create",
   "capture_failed"}

\* C17: a cycle that finds the active flag false takes the clearing branch:
\* no grab, no video-window scan, no frame; it only empties the canvas.  A
\* grab is made, and a frame put on the canvas, only by a cycle that read
\* the flag as true.
C17_InactiveNoCapture ==
  [][\A i \in InvIds :
       LET pc == inv[i].capture_thread
           pc2 == inv'[i].capture_thread
       IN
       /\ (CycleStep(i) /\ ~inv[i].inversion_active)
            => pc2 = "clear_test" /\ inv'[i].canvas = inv[i].canvas
       /\ (pc2 \in CapturingPcs /\ pc \notin CapturingPcs)
            => CycleStep(i) /\ inv[i].inversion_active /\ pc2 = "grab"
       /\ pc \in {"clear_test", "clear"}
            => /\ pc2 \notin CapturingPcs
               /\ inv'[i].canvas \in {inv[i].canvas, "blank"}
       /\ (pc = "clear" /\ pc2 = "loop") => inv'[i].canvas = "blank"
       /\ scan_pc'[i] # "idle" => pc2 = "scan"
       /\ (inv'[i].canvas = "frame" /\ inv[i].canvas # "frame")
            => pc = "create"]_vars

\* a running inverter that has stopped inverting: the cycle under way read
\* the flag false and is about to empty the canvas, which still holds the
\* frame of the last inverting cycle
C17_Witness ==
  \E i \in InvIds :
    /\ inv[i].running /\ ~inv[i].inversion_active
    /\ inv[i].overlay_window = "alive"
    /\ inv[i].capture_thread = "clear" /\ inv[i].canvas = "frame"

\* ---------------------------------------------- claims on the callback loop
\* the callbacks called so far by the fire under way, in order
InvokedNames == [k \in DOMAIN invoked |-> invoked[k][1]]

\* how many times cb occurs in list
Count(cb, list) == Cardinality({k \in DOMAIN list : list[k] = cb})

\* the step that calls a callback which raises
RaisingCall ==
  /\ fire_pc = "iter"
  /\ Len(invoked') = Len(invoked) + 1
  /\ invoked'[Len(invoked')][2]

\* the step that leaves the for loop of a fire
FireEnd == fire_pc = "iter" /\ fire_pc' = "poll"

\* C12: a callback that raises does not end the fire or the loop: the
\* iteration goes on with the next callback, so a fire over an unchanged
\* list calls every registered callback whichever of them raised, and the
\* detection thread is back at polling afterwards, its hold restarted.
C12_CallbackErrorIsolated ==
  [][/\ RaisingCall => /\ fire_pc' = "iter"
                       /\ fire_idx' = fire_idx + 1
                       /\ det_threads'[1] = "run" /\ det_running' = det_running
     /\ (FireEnd /\ touched = {})
          => /\ InvokedNames = at_fire
             /\ det_threads'[1] = "run"
             /\ press_start_time' = fire_time]_vars

\* a fire that follows one in which a callback raised: its first callback
\* raised and its second was called all the same
C12_Witness ==
  /\ fire_pc = "iter" /\ raised_earlier /\ touched = {}
  /\ det_threads[1] = "run"
  /\ Len(invoked) = 2 /\ invoked[1][2] /\ ~invoked[2][2]
  /\ InvokedNames = callbacks

\* C13: whatever add_callback and remove_callback do during a fire, a
\* callback registered once when the fire began and neither added nor
\* removed during it is called exactly once by that fire.
C13_MutationSafe ==
  [][FireEnd =>
       \A cb \in CallbackNames :
          (Count(cb, at_fire) = 1 /\ cb \notin touched)
             => Count(cb, InvokedNames) = 1]_vars

\* ------------------------------------------------ claims on the inversion
\* C15: invert_colors maps every channel value v of 0..255 to 255 - v,
\* which is again in 0..255, and inverting the result gives v back.
C15_InvertInvolution ==
  pix_pc = "inverted" =>
    /\ \A p \in DOMAIN img : \A c \in 1..3 :
          /\ img[p][c] = 255 - CvtColor(screenshot)[p][c]
          /\ img[p][c] \in 0..255
    /\ invert_colors(img) = CvtColor(screenshot)

\* an inverted frame whose blue channel was 0 and is 255 now
C15_Witness ==
  /\ pix_pc = "inverted"
  /\ screenshot[<<0, 0>>][1] = 0
  /\ img[<<0, 0>>] = <<85, 170, 255>>

====
